---- MODULE Spec2Model ----
(***************************************************************************)
(* State-machine model of the LibreLinkUp poller.                          *)
(*                                                                         *)
(*   prog = "main" : src/main_server.js      (adaptive setTimeout cycle)   *)
(*   prog = "p0"   : src/unnamed/part_000    (fixed setInterval variant)   *)
(*   prog = "p1"   : src/unnamed/part_001    (patientId-caching variant)   *)
(*                                                                         *)
(* One action is one run-to-suspension step of the JavaScript event loop:  *)
(* a timer callback, a prompt answer or an upstream response, executed up  *)
(* to the next await (promise continuations run as microtasks, before any  *)
(* other timer or I/O callback, so they belong to the same step).          *)
(*                                                                         *)
(* Instants are milliseconds counted from 2025-01-01T00:00:00 local time   *)
(* (the JavaScript epoch shifted so that the values fit TLC's integers).   *)
(* An ISO-8601 string is represented by the instant it denotes.           *)
(***************************************************************************)
EXTENDS Integers, Sequences, FiniteSets, TLC

VARIABLES
    prog,        \* which of the three source files is running
    now,         \* the local clock (ms) as last observed
    runs,        \* the executions of fetchAndStoreMeasurement, by slot
    timers,      \* pending setTimeout/setInterval callbacks: their due times
    arm,         \* the scheduling decision taken by the last step, if any
    cacheFile,   \* content of cache.json
    measFile,    \* content of latestMeasurements.json
    memoryData,  \* the in-memory snapshot served by the HTTPS endpoints
    baseURL,     \* apiClient.defaults.baseURL
    headers,     \* apiClient.defaults.headers.common
    sent,        \* the upstream request sent by the last step, if any
    recv,        \* the upstream response handled by the last step, if any,
                 \* and whether the file write of the step went through
    reply,       \* the HTTPS response sent by the last step, if any
    step,        \* the kind of the last step
    call         \* a helper function applied on its own: argument and result

vars == <<prog, now, runs, timers, arm, cacheFile, measFile, memoryData,
          baseURL, headers, sent, recv, reply, step, call>>

\* everything but `call`
progVars == <<prog, now, runs, timers, arm, cacheFile, measFile, memoryData,
              baseURL, headers, sent, recv, reply, step>>

(***************************************************************************)
(* Bounds of the model.                                                    *)
(***************************************************************************)
MaxRuns == 2      \* execution slots (concurrent fetchAndStoreMeasurement)
MaxLog  == 3      \* the upstream stops delivering readings at this length
HistCap == 3      \* responses of one login flow that are remembered
MaxDiff == 8      \* largest difference of two readings given to a helper
MaxMgdl == 400    \* largest mg/dL value given to a helper

RunIds == 1..MaxRuns

None == "none"    \* JavaScript undefined / absent field

(***************************************************************************)
(* The clock.  `now` is the value the clock had when the program last      *)
(* looked at it or was woken by it: timer callbacks and the step that      *)
(* reads the clock (purge and scheduling) run at instants of NowVals,      *)
(* never going back; the last instant is the horizon past which elapsed    *)
(* time is not tracked.                                                    *)
(***************************************************************************)
NowVals == {0, 122000, 122001, 123000, 183000}

SetMax(S) == CHOOSE x \in S : \A y \in S : y <= x

Horizon == SetMax(NowVals)

\* the instants at which a callback due at `due` can run
FireTimes(due) ==
    IF \E n \in NowVals : n >= now /\ n >= due
    THEN {n \in NowVals : n >= now /\ n >= due}
    ELSE {Horizon}

\* the instants at which an I/O completion can be delivered
LaterTimes == {n \in NowVals : n >= now}


(***************************************************************************)
(* Dates.  A Date is its instant in ms; the local time zone has no DST.    *)
(***************************************************************************)
DayMs == 86400000

\* days from 1970-01-01 to the civil date y-m-d (proleptic Gregorian)
DaysFromCivil(y, m, d) ==
    LET yy  == IF m <= 2 THEN y - 1 ELSE y
        era == yy \div 400
        yoe == yy - era * 400
        mp  == (m + 9) % 12
        doy == (153 * mp + 2) \div 5 + d - 1
        doe == yoe * 365 + yoe \div 4 - yoe \div 100 + doy
    IN  era * 146097 + doe - 719468

EpochDays == DaysFromCivil(2025, 1, 1)

\* new Date(year, monthIndex, day, hour, minute, second) in local time
NewDate(year, monthIndex, day, hour, minute, second) ==
    (DaysFromCivil(year, monthIndex + 1, day) - EpochDays) * DayMs
        + hour * 3600000 + minute * 60000 + second * 1000

\* d.toLocaleDateString(): determined by the local calendar day
toLocaleDateString(d) == d \div DayMs

\* an upstream timestamp "M/D/YYYY h:mm:ss AM|PM", already split in fields
RawTs(mo, d, y, hh, mm, ss, ap) ==
    [month |-> mo, day |-> d, year |-> y, hh |-> hh, mm |-> mm, ss |-> ss,
     ampm |-> ap]

\* variant: without the rule for the hour after midnight
parseLibreTimestampNoMidnight(ts) ==
    LET hour0 == ts.hh
        hour  == IF ts.ampm = "PM" /\ hour0 < 12 THEN hour0 + 12 ELSE hour0
    IN  NewDate(ts.year, ts.month - 1, ts.day, hour, ts.mm, ts.ss)

parseLibreTimestamp(ts) ==
    LET hour0 == ts.hh
        hour1 == IF ts.ampm = "PM" /\ hour0 < 12 THEN hour0 + 12 ELSE hour0
        hour  == IF ts.ampm = "AM" /\ hour1 = 12 THEN 0 ELSE hour1
    IN  NewDate(ts.year, ts.month - 1, ts.day, hour, ts.mm, ts.ss)

\* the civil date of a day number (days from 1970-01-01)
CivilFromDays(days) ==
    LET z   == days + 719468
        era == z \div 146097
        doe == z - era * 146097
        yoe == (doe - doe \div 1460 + doe \div 36524 - doe \div 146096) \div 365
        doy == doe - (365 * yoe + yoe \div 4 - yoe \div 100)
        mp  == (5 * doy + 2) \div 153
        d   == doy - (153 * mp + 2) \div 5 + 1
        m   == IF mp < 10 THEN mp + 3 ELSE mp - 9
        y   == yoe + era * 400 + (IF m <= 2 THEN 1 ELSE 0)
    IN  [year |-> y, month |-> m, day |-> d]

\* getFullYear(), getMonth() + 1, getDate(), getHours(), getMinutes() and
\* getSeconds() of a Date, in local time
LocalFields(d) ==
    LET civil == CivilFromDays(d \div DayMs + EpochDays)
        ms    == d % DayMs
    IN  [year |-> civil.year, month |-> civil.month, day |-> civil.day,
         hours |-> ms \div 3600000, minutes |-> (ms \div 60000) % 60,
         seconds |-> (ms \div 1000) % 60]

\* parsedDate.toISOString(): the ISO-8601 text of an instant
toISOString(d) == [iso |-> d]

\* new Date(x) for a stored or upstream timestamp
DateOf(x) == IF "iso" \in DOMAIN x THEN x.iso ELSE parseLibreTimestamp(x)

(***************************************************************************)
(* Pure helpers of the source.                                             *)
(***************************************************************************)
sha256Hex(str) == <<"sha256", str>>

\* variant: the default branch reuses the glyph of "stable"
arrowToEmojiNoUnknown(num) ==
    CASE num = 1 -> "down"
      [] num = 2 -> "down-right"
      [] num = 3 -> "right"
      [] num = 4 -> "up-right"
      [] num = 5 -> "up"
      [] OTHER   -> "right"

arrowToEmoji(num) ==
    CASE num = 1 -> "down"
      [] num = 2 -> "down-right"
      [] num = 3 -> "right"
      [] num = 4 -> "up-right"
      [] num = 5 -> "up"
      [] OTHER   -> "question"

\* variant: the strict comparison at the threshold
computeSinceLastTrendArrowNumberStrict(diff) ==
    IF diff = 0 THEN 3
    ELSE IF diff > 0 /\ diff < 5 THEN 4
    ELSE IF diff > 5 THEN 5
    ELSE IF diff < 0 /\ diff > -5 THEN 2
    ELSE 1

computeSinceLastTrendArrowNumber(diff) ==
    IF diff = 0 THEN 3
    ELSE IF diff > 0 /\ diff <= 5 THEN 4
    ELSE IF diff > 5 THEN 5
    ELSE IF diff < 0 /\ diff >= -5 THEN 2
    ELSE 1

measurementColorName(num) ==
    CASE num = 1 -> "green"
      [] num = 2 -> "yellow"
      [] num = 3 -> "orange"
      [] num = 4 -> "red"
      [] OTHER   -> "unknown"

\* variant: the tenths are cut off instead of rounded
MmolTenthsTrunc(v) == (10 * v) \div 18

\* Math.round((v / 18) * 10) / 10, as a number of tenths: 10 * v / 18 is
\* never half-way between two integers (18 k + 9 is odd, 10 v is even), so
\* the floating-point quotient rounds as the exact one does
MmolTenths(v) == (10 * v + 9) \div 18

OffsetMs == 3000

FallbackDelayMs == 30000

RetryDelayMs == 60000

MinDelayMs == 1000

IntervalMain == 120000

IntervalP1 == 60000

\* scheduleNextFetch of src/main_server.js, evaluated at clock value t
\* variant: the fallback is ten times as long
scheduleNextFetchLongFallback(lastTimestamp, t) ==
    LET delayMs == DateOf(lastTimestamp) + IntervalMain + OffsetMs - t
    IN  IF delayMs < MinDelayMs THEN 10 * FallbackDelayMs ELSE delayMs

\* variant: only a target already in the past is clamped
scheduleNextFetchNoFloor(lastTimestamp, t) ==
    LET delayMs == DateOf(lastTimestamp) + IntervalMain + OffsetMs - t
    IN  IF delayMs < 0 THEN FallbackDelayMs ELSE delayMs

scheduleNextFetch(lastTimestamp, t) ==
    LET lastDate  == DateOf(lastTimestamp)
        nextDate  == lastDate + IntervalMain
        finalDate == nextDate + OffsetMs
        delayMs   == finalDate - t
    IN  IF delayMs < MinDelayMs THEN FallbackDelayMs ELSE delayMs

\* scheduleNextFetch of src/unnamed/part_001
scheduleNextFetchP1(lastTimestamp, t) ==
    LET lastDate  == DateOf(lastTimestamp)
        nextDate  == lastDate + IntervalP1
        finalDate == nextDate + OffsetMs
        delayMs   == finalDate - t
    IN  IF delayMs < MinDelayMs THEN FallbackDelayMs ELSE delayMs


(***************************************************************************)
(* The two files.                                                          *)
(***************************************************************************)
EmptyObj ==
    [token |-> None, userId |-> None, accountIdHash |-> None,
     patientId |-> None, firstName |-> None, lastName |-> None,
     sensor |-> [present |-> FALSE], prim |-> FALSE]

\* a JSON number: reading a property of it gives undefined, and assigning
\* one is silently ignored (the file is not in strict mode)
PrimObj == [EmptyObj EXCEPT !.prim = TRUE]

SessionObj(t, u) ==
    [EmptyObj EXCEPT !.token = t, !.userId = u, !.accountIdHash = sha256Hex(u)]

\* cache.json: absent, text that is not JSON, the JSON text null, a JSON
\* number, an object
CacheFile(kind, obj) == [kind |-> kind, obj |-> obj]

\* readCache(): the parsed value, or "null" for the JSON value null
readCache(file) ==
    CASE file.kind = "missing" -> [null |-> FALSE, obj |-> EmptyObj]
      [] file.kind = "garbage" -> [null |-> FALSE, obj |-> EmptyObj]
      [] file.kind = "null"    -> [null |-> TRUE,  obj |-> EmptyObj]
      [] file.kind = "number"  -> [null |-> FALSE, obj |-> PrimObj]
      [] OTHER                 -> [null |-> FALSE, obj |-> file.obj]

\* writeCache(obj): JSON.stringify drops the undefined fields
writeCache(obj) ==
    IF obj.prim THEN CacheFile("number", EmptyObj) ELSE CacheFile("object", obj)

\* cacheObj.token = token; cacheObj.userId = userId; cacheObj.accountIdHash = ...
SetSession(obj, token, userId) ==
    IF obj.prim
    THEN obj
    ELSE [obj EXCEPT !.token = token, !.userId = userId,
                     !.accountIdHash = sha256Hex(userId)]

\* variant: the test reads a field this file never stores
HasSessionTypo(obj) ==
    obj.token # None /\ obj.userId # None /\ obj.patientId # None

\* the condition of the if that decides between cached session and login
HasSession(obj) ==
    obj.token # None /\ obj.userId # None /\ obj.accountIdHash # None

\* latestMeasurements.json
MeasFile(kind, arr) == [kind |-> kind, arr |-> arr]

NullEntry == [null |-> TRUE]

Entry(ts, v, trend) ==
    [Timestamp |-> ts, ValueInMgPerDl |-> v, TrendArrow |-> trend]

readMeasurementsFile(file) ==
    IF file.kind = "array" THEN file.arr ELSE <<>>

writeMeasurementsFile(arr) == MeasFile("array", arr)

IsNullEntry(m) == "null" \in DOMAIN m

\* purgeOldMeasurements(arr) at clock value t; "throws" is the TypeError
\* raised by m.Timestamp when an element is null
purgeThrows(arr) == \E i \in 1..Len(arr) : IsNullEntry(arr[i])

IsBadTs(ts) == "bad" \in DOMAIN ts        \* new Date(ts) is Invalid Date

\* variant: a rolling window of 24 hours instead of the calendar day
purgeOldMeasurementsRolling(arr, t) ==
    SelectSeq(arr, LAMBDA m :
        /\ ~IsBadTs(m.Timestamp)
        /\ t - DateOf(m.Timestamp) < DayMs)

purgeOldMeasurements(arr, t) ==
    SelectSeq(arr, LAMBDA m :
        /\ ~IsBadTs(m.Timestamp)
        /\ toLocaleDateString(DateOf(m.Timestamp)) = toLocaleDateString(t))

(***************************************************************************)
(* What the upstream can answer.                                           *)
(***************************************************************************)
DefaultBase == "https://api.libreview.io"

RegionBase(region) ==
    CASE region = "eu" -> "https://api-eu.libreview.io"
      [] region = "us" -> "https://api-us.libreview.io"
      [] OTHER         -> "https://api-?.libreview.io"

\* body of a login or continuation response (res.data)
Body(status, redirect, region, stepType, token, userId) ==
    [status |-> status, redirect |-> redirect, region |-> region,
     stepType |-> stepType, token |-> token, userId |-> userId]

NetFail == Body(-1, FALSE, None, None, None, None)   \* the request rejects

RedirectEU   == Body(0, TRUE, "eu", None, None, None)
RedirectUS   == Body(0, TRUE, "us", None, None, None)
RedirectNone == Body(0, TRUE, None, None, None, None)
BadCreds     == Body(2, FALSE, None, None, None, None)
OkA          == Body(0, FALSE, None, None, "tA", "uA")
OkB          == Body(0, FALSE, None, None, "tB", "uB")
OkNoTicket   == Body(0, FALSE, None, None, None, None)
OddStatus    == Body(3, FALSE, None, None, "tB", "uB")
StepA        == Body(4, FALSE, None, "tou", "tA", "uA")
StepNoType   == Body(4, FALSE, None, None, "tA", "uA")

AuthResps ==
    {NetFail, RedirectEU, RedirectUS, RedirectNone, BadCreds, OkA, OkB,
     OkNoTicket, OddStatus, StepA, StepNoType}

Sensor(sn, a, pt) == [present |-> TRUE, sn |-> sn, a |-> a, pt |-> pt]

Conn(pid, fn, ln, sensor) ==
    [patientId |-> pid, firstName |-> fn, lastName |-> ln, sensor |-> sensor]

NoConn == Conn(None, None, None, [present |-> FALSE])

ConnA == Conn("pA", "Ann", "Lee", Sensor("SN1", 1000, 4))
ConnB == Conn("pB", "Bob", "Ray", [present |-> FALSE])

\* body of the /llu/connections response: status and the list
ConnResps ==
    { [status |-> -1, data |-> <<>>],
      [status |-> 2,  data |-> <<>>],
      [status |-> 0,  data |-> <<>>],
      [status |-> 0,  data |-> <<ConnA>>],
      [status |-> 0,  data |-> <<ConnB, ConnA>>] }

Ts0 == RawTs(1, 1, 2025, 12, 0, 0, "AM")     \* instant 0
Ts1 == RawTs(1, 1, 2025, 12, 1, 0, "AM")     \* instant 60000
Ts25 == RawTs(1, 1, 2025, 12, 25, 0, "AM")   \* 25 min after Ts0, 24 after Ts1
TsY == RawTs(12, 31, 2024, 11, 59, 0, "PM")  \* the evening before
BadTs == [bad |-> TRUE]                      \* no usable Timestamp field

Meas(ts, v, trend, color) ==
    [Timestamp |-> ts, ValueInMgPerDl |-> v, TrendArrow |-> trend,
     MeasurementColor |-> color]

Measurements ==
    { Meas(Ts0, 100, 3, 1), Meas(Ts1, 106, 4, 0), Meas(Ts25, 112, 5, 2),
      Meas(TsY, 94, 2, 3), Meas(BadTs, 100, 3, 1) }

\* body of the graph response: status and glucoseMeasurement, if any
GraphResps ==
    { [status |-> -1, has |-> FALSE, m |-> Meas(Ts0, 100, 3, 1)],
      [status |-> 2,  has |-> FALSE, m |-> Meas(Ts0, 100, 3, 1)],
      [status |-> 0,  has |-> FALSE, m |-> Meas(Ts0, 100, 3, 1)] }
    \cup { [status |-> 0, has |-> TRUE, m |-> m] : m \in Measurements }

(***************************************************************************)
(* Program state as one record, so that a handler is a function on it.     *)
(***************************************************************************)
NoRun ==
    [pc |-> "none", cacheObj |-> EmptyObj, hist |-> <<>>, nUpd |-> 0,
     conn |-> NoConn, initial |-> FALSE, login |-> FALSE]

NoReq == [kind |-> "none", base |-> None, auth |-> None, accountId |-> None,
          patientid |-> None, param |-> None]

NoHeaders == [Authorization |-> None, AccountId |-> None, patientid |-> None]

NoArm == [outcome |-> None, delay |-> 0, stamp |-> toISOString(0)]

NoResp == [kind |-> "none"]

\* io is FALSE when the writeFileSync of the step raised an exception
RespIo(kind, body, io) == [kind |-> kind, body |-> body, io |-> io]

Resp(kind, body) == RespIo(kind, body, TRUE)

Unset == [set |-> FALSE]

NoReply == [status |-> 0, body |-> Unset, path |-> None]

NoCall == [fn |-> "none", arg |-> 0, res |-> 0]

NoData == [patientInfo |-> Unset, sensorInfo |-> Unset,
           measurementMgdl |-> Unset, measurementMmol |-> Unset]

St(n) ==
    [now |-> n, runs |-> runs, timers |-> timers, arm |-> NoArm,
     cacheFile |-> cacheFile, measFile |-> measFile,
     memoryData |-> memoryData, baseURL |-> baseURL, headers |-> headers,
     sent |-> NoReq, recv |-> NoResp, reply |-> NoReply]

Commit(s, what) ==
    /\ now' = s.now
    /\ runs' = s.runs
    /\ timers' = s.timers
    /\ arm' = s.arm
    /\ cacheFile' = s.cacheFile
    /\ measFile' = s.measFile
    /\ memoryData' = s.memoryData
    /\ baseURL' = s.baseURL
    /\ headers' = s.headers
    /\ sent' = s.sent
    /\ recv' = s.recv
    /\ reply' = s.reply
    /\ step' = what
    /\ prog' = prog
    /\ call' = call

Timer(kind, due) == [kind |-> kind, due |-> due]


(***************************************************************************)
(* fetchCycle: what happens once fetchAndStoreMeasurement has settled.     *)
(* outcome is "throw", "null" (no reading) or "stamp" (isoStamp returned). *)
(***************************************************************************)
Req(s, kind, param) ==
    [kind |-> kind, base |-> s.baseURL, auth |-> s.headers.Authorization,
     accountId |-> s.headers.AccountId, patientid |-> s.headers.patientid,
     param |-> param]

\* the slot of an execution that has ended
Ended(run) == NoRun

\* variant: the "no timestamp" branch lacks its return and falls through
\* to the scheduling of the success path (new Date(null) is long past)
fetchCycleTailNoReturn(s, r, outcome, stamp) ==
    LET ms == IF outcome = "stamp"
              THEN scheduleNextFetch(stamp, s.now)
              ELSE RetryDelayMs
        t1 == Append(s.timers, Timer("timeout", s.now + ms))
    IN  [s EXCEPT !.runs[r] = Ended(@),
                  !.timers = IF outcome = "null"
                             THEN Append(t1, Timer("timeout",
                                                   s.now + FallbackDelayMs))
                             ELSE t1,
                  !.arm = [outcome |-> outcome, delay |-> ms,
                           stamp |-> stamp]]

\* variant: without a new reading the delay is derived from the last
\* stored reading
fetchCycleTailStale(s, r, outcome, stamp) ==
    LET arr == readMeasurementsFile(s.measFile)
        ms  == IF outcome = "stamp"
               THEN scheduleNextFetch(stamp, s.now)
               ELSE IF Len(arr) > 0 /\ ~IsNullEntry(arr[Len(arr)])
               THEN scheduleNextFetch(arr[Len(arr)].Timestamp, s.now)
               ELSE RetryDelayMs
    IN  [s EXCEPT !.runs[r] = Ended(@),
                  !.timers = Append(@, Timer("timeout", s.now + ms)),
                  !.arm = [outcome |-> outcome, delay |-> ms,
                           stamp |-> stamp]]

\* the rest of fetchCycle in src/main_server.js
fetchCycleTail(s, r, outcome, stamp) ==
    LET ms == IF outcome = "stamp"
              THEN scheduleNextFetch(stamp, s.now)
              ELSE RetryDelayMs
    IN  [s EXCEPT !.runs[r] = Ended(@),
                  !.timers = Append(@, Timer("timeout", s.now + ms)),
                  !.arm = [outcome |-> outcome, delay |-> ms,
                           stamp |-> stamp]]

\* the rest of fetchCycle in src/unnamed/part_001
fetchCycleTailP1(s, r, outcome, stamp) ==
    LET ms == IF outcome = "stamp"
              THEN scheduleNextFetchP1(stamp, s.now)
              ELSE RetryDelayMs
    IN  [s EXCEPT !.runs[r] = Ended(@),
                  !.timers = Append(@, Timer("timeout", s.now + ms)),
                  !.arm = [outcome |-> outcome, delay |-> ms,
                           stamp |-> stamp]]

\* main() of src/unnamed/part_000 after a fetch: the initial fetch is
\* awaited and followed by setInterval, a scheduled fetch just ends
mainTailP0(s, r, outcome, stamp) ==
    IF s.runs[r].initial
    THEN [s EXCEPT !.runs[r] = Ended(@),
                   !.timers = Append(@, Timer("interval", s.now + RetryDelayMs))]
    ELSE [s EXCEPT !.runs[r] = Ended(@)]

Finish(s, r, outcome, stamp) ==
    CASE prog = "main" -> fetchCycleTail(s, r, outcome, stamp)
      [] prog = "p1"   -> fetchCycleTailP1(s, r, outcome, stamp)
      [] OTHER         -> mainTailP0(s, r, outcome, stamp)

\* variant: a failed cycle withdraws what is published
ThrowClear(s, r) ==
    Finish([s EXCEPT !.memoryData = NoData], r, "throw", toISOString(0))

Throw(s, r) == Finish(s, r, "throw", toISOString(0))

\* variant: the branch without reading returns before arming the timer
ReturnNullNoTimer(s, r) == [s EXCEPT !.runs[r] = Ended(@)]

ReturnNull(s, r) == Finish(s, r, "null", toISOString(0))

(***************************************************************************)
(* fetchAndStoreMeasurement up to the first upstream request.              *)
(***************************************************************************)
\* memoryData.patientInfo / sensorInfo as src/unnamed/part_001 derives them
\* from the cached profile
publishProfileP1(s, obj) ==
    [s EXCEPT
       !.memoryData.patientInfo =
           [set |-> TRUE, firstName |-> obj.firstName,
            lastName |-> obj.lastName, patientId |-> obj.patientId],
       !.memoryData.sensorInfo =
           IF obj.sensor.present
           THEN [set |-> TRUE, sn |-> obj.sensor.sn,
                 activationUnix |-> obj.sensor.a,
                 activationDateStr |-> obj.sensor.a * 1000,
                 ptName |-> CASE obj.sensor.pt = 4 -> "Freestyle Libre 3"
                              [] obj.sensor.pt = 1 -> "Freestyle Libre 2"
                              [] obj.sensor.pt = 0 -> "Freestyle Libre 1"
                              [] OTHER -> "Unknown"]
           ELSE Unset]

getGraph(s, r, patientId) ==
    [s EXCEPT !.runs[r].pc = "graph", !.sent = Req(s, "graph", patientId)]

getConnections(s, r) ==
    [s EXCEPT !.runs[r].pc = "connections",
              !.sent = Req(s, "connections", None)]

\* "Attach headers" and the request that follows
attachHeaders(s, r) ==
    LET obj == s.runs[r].cacheObj
        s1  == [s EXCEPT !.headers.Authorization = obj.token,
                         !.headers.AccountId = obj.accountIdHash,
                         !.headers.patientid =
                             IF prog = "p1" THEN @ ELSE obj.userId]
    IN  IF prog = "p1" /\ obj.patientId # None
        THEN getGraph(publishProfileP1(s1, obj), r, obj.patientId)
        ELSE getConnections(s1, r)

fetchAndStoreMeasurement(s, r) ==
    LET c == readCache(s.cacheFile)
    IN  IF c.null
        THEN Throw(s, r)                      \* TypeError on cacheObj.token
        ELSE IF ~HasSession(c.obj)
        THEN [s EXCEPT !.runs[r].pc = "promptEmail",
                       !.runs[r].cacheObj = c.obj]
        ELSE attachHeaders([s EXCEPT !.runs[r].cacheObj = c.obj], r)

\* variant: every cycle starts from the default base address
fetchCycleResetBase(s, r, initial) ==
    fetchAndStoreMeasurement(
        [s EXCEPT !.runs[r] = [NoRun EXCEPT !.initial = initial],
                  !.baseURL = DefaultBase], r)

\* a fresh execution in slot r
fetchCycle(s, r, initial) ==
    fetchAndStoreMeasurement(
        [s EXCEPT !.runs[r] = [NoRun EXCEPT !.initial = initial]], r)

(***************************************************************************)
(* doLoginFlow.                                                            *)
(***************************************************************************)
updateBaseURL(s, region) == [s EXCEPT !.baseURL = RegionBase(region)]

updateBaseURLP1(s, region) == [s EXCEPT !.baseURL = DefaultBase]

postLogin(s, r) ==
    [s EXCEPT !.runs[r].pc = "login", !.sent = Req(s, "login", None)]

Remember(s, r, resp) ==
    [s EXCEPT !.runs[r].hist =
                  IF Len(@) < HistCap THEN Append(@, resp) ELSE @]

\* while (respData?.status === 4) respData = await doAuthContinue(respData)
\* and, out of the loop, the end of doLoginFlow and the writeCache after it
doAuthContinue(s, r, prev) ==
    IF prev.stepType = None \/ prev.token = None
    THEN Throw(s, r)
    ELSE [s EXCEPT !.runs[r].pc = "continue",
                   !.sent = [Req(s, "continue", prev.stepType)
                                EXCEPT !.auth = prev.token]]

\* variant: the session is built from the first response of the flow
loginDoneFirst(s, r, resp, io) ==
    LET first == s.runs[r].hist[1]
    IN  IF resp.status # 0
        THEN Throw(s, r)
        ELSE IF first.token = None \/ first.userId = None
        THEN Throw(s, r)
        ELSE LET obj == SetSession(s.runs[r].cacheObj, first.token,
                                   first.userId)
             IN  IF ~io
                 THEN Throw(s, r)
                 ELSE attachHeaders(
                          [s EXCEPT !.runs[r].cacheObj = obj,
                                    !.runs[r].login = TRUE,
                                    !.cacheFile = writeCache(obj)], r)

\* variant: the final status is not checked
loginDoneAnyStatus(s, r, resp, io) ==
    IF resp.token = None \/ resp.userId = None
    THEN Throw(s, r)
    ELSE LET obj == SetSession(s.runs[r].cacheObj, resp.token, resp.userId)
         IN  IF ~io
             THEN Throw(s, r)
             ELSE attachHeaders(
                      [s EXCEPT !.runs[r].cacheObj = obj,
                                !.runs[r].login = TRUE,
                                !.cacheFile = writeCache(obj)], r)

loginDone(s, r, resp, io) ==
    IF resp.status # 0
    THEN Throw(s, r)
    ELSE IF resp.token = None \/ resp.userId = None
    THEN Throw(s, r)                          \* TypeError on the payload
    ELSE LET obj == SetSession(s.runs[r].cacheObj, resp.token, resp.userId)
         IN  IF ~io
             THEN Throw(s, r)                 \* writeCache fails
             ELSE attachHeaders(
                      [s EXCEPT !.runs[r].cacheObj = obj,
                                !.runs[r].login = TRUE,
                                !.cacheFile = writeCache(obj)], r)

continueLoop(s, r, resp, io) ==
    IF resp.status = 4
    THEN doAuthContinue(s, r, resp)
    ELSE loginDone(s, r, resp, io)

\* a response to postLogin arrives
onLoginResponse(s0, r, resp, io) ==
    LET s == Remember(s0, r, resp)
    IN  IF resp = NetFail
        THEN Throw(s, r)
        ELSE IF resp.redirect
        THEN IF resp.region = None
             THEN Throw(s, r)
             ELSE LET s1 == IF prog = "p1"
                            THEN updateBaseURLP1(s, resp.region)
                            ELSE updateBaseURL(s, resp.region)
                      s2 == [s1 EXCEPT !.runs[r].nUpd =
                                 IF @ < HistCap THEN @ + 1 ELSE @]
                  IN  postLogin(s2, r)
        ELSE continueLoop(s, r, resp, io)

\* a response to the continuation POST arrives
onContinueResponse(s0, r, resp, io) ==
    LET s == Remember(s0, r, resp)
    IN  IF resp = NetFail
        THEN Throw(s, r)
        ELSE continueLoop(s, r, resp, io)


(***************************************************************************)
(* fetchAndStoreMeasurement after the /llu/connections response.           *)
(***************************************************************************)
onConnectionsResponse(s, r, resp, io) ==
    IF resp.status # 0
    THEN Throw(s, r)
    ELSE IF Len(resp.data) = 0
    THEN ReturnNull(s, r)
    ELSE LET c == resp.data[1]
         IN  IF prog = "p1"
             THEN LET old == s.runs[r].cacheObj
                      obj == IF old.prim
                             THEN old
                             ELSE [old EXCEPT !.patientId = c.patientId,
                                              !.firstName = c.firstName,
                                              !.lastName = c.lastName,
                                              !.sensor = c.sensor]
                  IN  IF ~io
                      THEN Throw(s, r)        \* writeCache fails
                      ELSE getGraph(
                               publishProfileP1(
                                   [s EXCEPT !.runs[r].cacheObj = obj,
                                             !.cacheFile = writeCache(obj)],
                                   obj),
                               r, obj.patientId)
             ELSE getGraph([s EXCEPT !.runs[r].conn = c], r, c.patientId)

(***************************************************************************)
(* fetchAndStoreMeasurement after the graph response.                      *)
(***************************************************************************)
FreshMs == 24 * 60000

\* the "SinceLastTrendArrow" text for a reading at instant d with value v
sinceLastTrend(arr, d, v) ==
    IF Len(arr) > 0
    THEN LET prev == arr[Len(arr)]
         IN  IF ~IsBadTs(prev.Timestamp) /\ d - DateOf(prev.Timestamp) <= FreshMs
             THEN arrowToEmoji(
                      computeSinceLastTrendArrowNumber(v - prev.ValueInMgPerDl))
             ELSE "N/A"
    ELSE "N/A"

sensorInfoOf(sensor) ==
    IF sensor.present
    THEN [set |-> TRUE, sn |-> sensor.sn, activationUnix |-> sensor.a,
          activationDateStr |-> sensor.a * 1000,
          ptName |-> CASE sensor.pt = 4 -> "Freestyle Libre 3"
                       [] sensor.pt = 1 -> "Freestyle Libre 2"
                       [] sensor.pt = 0 -> "Freestyle Libre 1"
                       [] OTHER -> "Unknown (pt)"]
    ELSE Unset

\* variant: the snapshot is updated before the log is written
storeAndPublishMemoryFirst(s, r, latest, io) ==
    IF IsBadTs(latest.Timestamp)
    THEN Throw(s, r)                          \* TypeError in the parser
    ELSE
    LET parsedDate == parseLibreTimestamp(latest.Timestamp)
        isoStamp   == toISOString(parsedDate)
        arr0       == readMeasurementsFile(s.measFile)
    IN  IF purgeThrows(arr0)
        THEN Throw(s, r)
        ELSE
        LET arr1  == purgeOldMeasurements(arr0, s.now)
            since == sinceLastTrend(arr1, parsedDate, latest.ValueInMgPerDl)
            arr2  == Append(arr1, Entry(isoStamp, latest.ValueInMgPerDl,
                                        latest.TrendArrow))
            color == latest.MeasurementColor
            c     == s.runs[r].conn
            view  == [set |-> TRUE, Timestamp |-> isoStamp,
                      TrendArrow |-> latest.TrendArrow,
                      TrendArrowEmoji |-> arrowToEmoji(latest.TrendArrow),
                      SinceLastTrendArrow |-> since,
                      MeasurementColor |-> color,
                      MeasurementColorName |-> measurementColorName(color)]
            published ==
                   [s EXCEPT
                      !.memoryData =
                          [patientInfo |->
                               [set |-> TRUE, firstName |-> c.firstName,
                                lastName |-> c.lastName],
                           sensorInfo |-> sensorInfoOf(c.sensor),
                           measurementMgdl |->
                               [unit |-> "mgdl",
                                value |-> latest.ValueInMgPerDl] @@ view,
                           measurementMmol |->
                               [unit |-> "mmol",
                                value |-> MmolTenths(latest.ValueInMgPerDl)]
                               @@ view]]
        IN  IF ~io
            THEN Throw(published, r)
            ELSE Finish([published EXCEPT
                             !.measFile = writeMeasurementsFile(arr2)],
                        r, "stamp", isoStamp)

\* src/main_server.js, from "Convert => ISO8601" to the return
storeAndPublish(s, r, latest, io) ==
    IF IsBadTs(latest.Timestamp)
    THEN Throw(s, r)                          \* TypeError in the parser
    ELSE
    LET parsedDate == parseLibreTimestamp(latest.Timestamp)
        isoStamp   == toISOString(parsedDate)
        arr0       == readMeasurementsFile(s.measFile)
    IN  IF purgeThrows(arr0)
        THEN Throw(s, r)
        ELSE
        LET arr1  == purgeOldMeasurements(arr0, s.now)
            since == sinceLastTrend(arr1, parsedDate, latest.ValueInMgPerDl)
            arr2  == Append(arr1, Entry(isoStamp, latest.ValueInMgPerDl,
                                        latest.TrendArrow))
            color == latest.MeasurementColor
            c     == s.runs[r].conn
            view  == [set |-> TRUE, Timestamp |-> isoStamp,
                      TrendArrow |-> latest.TrendArrow,
                      TrendArrowEmoji |-> arrowToEmoji(latest.TrendArrow),
                      SinceLastTrendArrow |-> since,
                      MeasurementColor |-> color,
                      MeasurementColorName |-> measurementColorName(color)]
        IN  IF ~io
            THEN Throw(s, r)                  \* writeMeasurementsFile fails
            ELSE Finish(
                   [s EXCEPT
                      !.measFile = writeMeasurementsFile(arr2),
                      !.memoryData =
                          [patientInfo |->
                               [set |-> TRUE, firstName |-> c.firstName,
                                lastName |-> c.lastName],
                           sensorInfo |-> sensorInfoOf(c.sensor),
                           measurementMgdl |->
                               [unit |-> "mgdl",
                                value |-> latest.ValueInMgPerDl] @@ view,
                           measurementMmol |->
                               [unit |-> "mmol",
                                value |-> MmolTenths(latest.ValueInMgPerDl)]
                               @@ view]],
                   r, "stamp", isoStamp)

\* src/unnamed/part_001: no since-last trend, profile published earlier
storeAndPublishP1(s, r, latest, io) ==
    IF IsBadTs(latest.Timestamp)
    THEN Throw(s, r)
    ELSE
    LET parsedDate == parseLibreTimestamp(latest.Timestamp)
        isoStamp   == toISOString(parsedDate)
        arr0       == readMeasurementsFile(s.measFile)
    IN  IF purgeThrows(arr0)
        THEN Throw(s, r)
        ELSE
        LET arr1 == purgeOldMeasurements(arr0, s.now)
            arr2 == Append(arr1, Entry(isoStamp, latest.ValueInMgPerDl,
                                       latest.TrendArrow))
            view == [set |-> TRUE, Timestamp |-> isoStamp,
                     TrendArrow |-> latest.TrendArrow,
                     TrendArrowEmoji |-> arrowToEmoji(latest.TrendArrow)]
        IN  IF ~io
            THEN Throw(s, r)
            ELSE Finish(
                   [s EXCEPT
                      !.measFile = writeMeasurementsFile(arr2),
                      !.memoryData.measurementMgdl =
                          [unit |-> "mgdl",
                           value |-> latest.ValueInMgPerDl] @@ view,
                      !.memoryData.measurementMmol =
                          [unit |-> "mmol",
                           value |-> MmolTenths(latest.ValueInMgPerDl)]
                          @@ view],
                   r, "stamp", isoStamp)

\* variant: the file is written with the new reading alone
storeAndPublishP0Overwrite(s, r, latest, io) ==
    LET arr0 == readMeasurementsFile(s.measFile)
    IN  IF purgeThrows(arr0)
        THEN Throw(s, r)
        ELSE
        LET arr1  == purgeOldMeasurements(arr0, s.now)
            since == IF IsBadTs(latest.Timestamp)
                     THEN "N/A"               \* NaN <= 24 is false
                     ELSE sinceLastTrend(arr1, DateOf(latest.Timestamp),
                                         latest.ValueInMgPerDl)
            arr2  == Append(<<>>, Entry(latest.Timestamp,
                                        latest.ValueInMgPerDl,
                                        latest.TrendArrow))
            c     == s.runs[r].conn
            view  == [set |-> TRUE, Timestamp |-> latest.Timestamp,
                      TrendArrow |-> latest.TrendArrow,
                      TrendArrowEmoji |-> arrowToEmoji(latest.TrendArrow),
                      SinceLastTrendArrow |-> since]
        IN  IF ~io
            THEN Throw(s, r)
            ELSE Finish(
                   [s EXCEPT
                      !.measFile = writeMeasurementsFile(arr2),
                      !.memoryData =
                          [patientInfo |->
                               [set |-> TRUE, firstName |-> c.firstName,
                                lastName |-> c.lastName],
                           sensorInfo |-> sensorInfoOf(c.sensor),
                           measurementMgdl |->
                               [unit |-> "mgdl",
                                value |-> latest.ValueInMgPerDl] @@ view,
                           measurementMmol |->
                               [unit |-> "mmol",
                                value |-> MmolTenths(latest.ValueInMgPerDl)]
                               @@ view]],
                   r, "stamp", toISOString(0))

\* src/unnamed/part_000: the upstream timestamp is stored as received
storeAndPublishP0(s, r, latest, io) ==
    LET arr0 == readMeasurementsFile(s.measFile)
    IN  IF purgeThrows(arr0)
        THEN Throw(s, r)
        ELSE
        LET arr1  == purgeOldMeasurements(arr0, s.now)
            since == IF IsBadTs(latest.Timestamp)
                     THEN "N/A"               \* NaN <= 24 is false
                     ELSE sinceLastTrend(arr1, DateOf(latest.Timestamp),
                                         latest.ValueInMgPerDl)
            arr2  == Append(arr1, Entry(latest.Timestamp,
                                        latest.ValueInMgPerDl,
                                        latest.TrendArrow))
            c     == s.runs[r].conn
            view  == [set |-> TRUE, Timestamp |-> latest.Timestamp,
                      TrendArrow |-> latest.TrendArrow,
                      TrendArrowEmoji |-> arrowToEmoji(latest.TrendArrow),
                      SinceLastTrendArrow |-> since]
        IN  IF ~io
            THEN Throw(s, r)
            ELSE Finish(
                   [s EXCEPT
                      !.measFile = writeMeasurementsFile(arr2),
                      !.memoryData =
                          [patientInfo |->
                               [set |-> TRUE, firstName |-> c.firstName,
                                lastName |-> c.lastName],
                           sensorInfo |-> sensorInfoOf(c.sensor),
                           measurementMgdl |->
                               [unit |-> "mgdl",
                                value |-> latest.ValueInMgPerDl] @@ view,
                           measurementMmol |->
                               [unit |-> "mmol",
                                value |-> MmolTenths(latest.ValueInMgPerDl)]
                               @@ view]],
                   r, "stamp", toISOString(0))

\* variant: a response without reading clears what is published
onGraphResponseClear(s, r, resp, io) ==
    IF resp.status # 0
    THEN Throw(s, r)
    ELSE IF ~resp.has
    THEN ReturnNull([s EXCEPT !.memoryData = NoData], r)
    ELSE CASE prog = "main" -> storeAndPublish(s, r, resp.m, io)
           [] prog = "p1"   -> storeAndPublishP1(s, r, resp.m, io)
           [] OTHER         -> storeAndPublishP0(s, r, resp.m, io)

onGraphResponse(s, r, resp, io) ==
    IF resp.status # 0
    THEN Throw(s, r)
    ELSE IF ~resp.has
    THEN ReturnNull(s, r)
    ELSE CASE prog = "main" -> storeAndPublish(s, r, resp.m, io)
           [] prog = "p1"   -> storeAndPublishP1(s, r, resp.m, io)
           [] OTHER         -> storeAndPublishP0(s, r, resp.m, io)


(***************************************************************************)
(* Initial states.                                                         *)
(***************************************************************************)
InitCaches ==
    { CacheFile("missing", EmptyObj), CacheFile("garbage", EmptyObj),
      CacheFile("null", EmptyObj), CacheFile("number", EmptyObj),
      CacheFile("object", SessionObj("tA", "uA")),
      CacheFile("object", [EmptyObj EXCEPT !.token = "tA"]) }

InitLogs ==
    { MeasFile("missing", <<>>), MeasFile("garbage", <<>>),
      MeasFile("array", <<Entry(toISOString(parseLibreTimestamp(TsY)), 94, 2)>>),
      MeasFile("array", <<NullEntry>>) }

\* the module-level state of a process that has just been started
InitMemory ==
    /\ now = 0
    /\ runs = [r \in RunIds |-> NoRun]
    /\ timers = <<>>
    /\ arm = NoArm
    /\ memoryData = NoData
    /\ baseURL = DefaultBase
    /\ headers = NoHeaders
    /\ sent = NoReq
    /\ recv = NoResp
    /\ reply = NoReply
    /\ step = "boot"
    /\ call = NoCall

InitCommon ==
    /\ InitMemory
    /\ cacheFile \in InitCaches
    /\ measFile \in InitLogs

Init == InitCommon /\ prog = "main"

\* the interval variant is explored with overlapping executions, from
\* fewer files and with fewer upstream answers
InitP0 ==
    /\ InitCommon
    /\ prog = "p0"
    /\ cacheFile \in {CacheFile("missing", EmptyObj),
                      CacheFile("object", SessionObj("tA", "uA"))}
    /\ measFile = MeasFile("missing", <<>>)

InitP1 == InitCommon /\ prog = "p1"

(***************************************************************************)
(* Actions: one per callback of the event loop.                            *)
(***************************************************************************)
AuthInputs == IF prog = "p0" THEN {NetFail, OkA, StepA} ELSE AuthResps

ConnInputs ==
    IF prog = "p0"
    THEN {resp \in ConnResps : resp.status = 0 /\ Len(resp.data) <= 1}
    ELSE ConnResps

GraphInputs ==
    IF prog = "p0"
    THEN {resp \in GraphResps :
              resp.status = 0 /\ (resp.has => resp.m.Timestamp \in {Ts0, BadTs})}
    ELSE GraphResps

FreeSlots == {r \in RunIds : runs[r].pc = "none"}

FirstFree == CHOOSE r \in FreeSlots : \A q \in FreeSlots : r <= q

RemoveAt(seq, i) == SubSeq(seq, 1, i - 1) \o SubSeq(seq, i + 1, Len(seq))

\* main(): startHttpsServer(), then the first fetch
Main ==
    /\ step = "boot"
    /\ Commit(fetchCycle(St(now), 1, TRUE), "main")

\* a setTimeout(fetchCycle, ms) callback runs
TimerFire(i) ==
    /\ i \in 1..Len(timers)
    /\ timers[i].kind = "timeout"
    /\ FreeSlots # {}
    /\ \E n \in FireTimes(timers[i].due) :
         Commit(fetchCycle([St(n) EXCEPT !.timers = RemoveAt(timers, i)],
                           FirstFree, FALSE), "timer")

\* the setInterval callback of src/unnamed/part_000 runs
IntervalFire(i) ==
    /\ i \in 1..Len(timers)
    /\ timers[i].kind = "interval"
    /\ FreeSlots # {}
    /\ \E n \in FireTimes(timers[i].due) :
         Commit(fetchCycle(
                    [St(n) EXCEPT !.timers[i] =
                                      Timer("interval", n + RetryDelayMs)],
                    FirstFree, FALSE), "interval")

\* the outcomes of the file write of a step (done, or failed with an
\* exception); a step that reaches no write has nothing that can fail
WriteOutcomes(reachesWrite) == IF reachesWrite THEN BOOLEAN ELSE {TRUE}

\* the login flow gets to writeCache with this final response
WritesSession(resp) ==
    resp.status = 0 /\ resp.token # None /\ resp.userId # None

\* the cycle gets to writeMeasurementsFile with this graph response
WritesLog(resp) ==
    /\ resp.status = 0 /\ resp.has
    /\ prog # "p0" => ~IsBadTs(resp.m.Timestamp)
    /\ ~purgeThrows(readMeasurementsFile(measFile))

\* the record of the login flow is kept for one step after the flow
Forget(s, r) == [s EXCEPT !.runs[r].hist = <<>>, !.runs[r].nUpd = 0]

\* the user answers 'LibreView Email: '
PromptEmail(r) ==
    /\ runs[r].pc = "promptEmail"
    /\ Commit([St(now) EXCEPT !.runs[r].pc = "promptPassword"], "prompt")

\* the user answers 'LibreView Password: ', doLoginFlow posts the login
PromptPassword(r) ==
    /\ runs[r].pc = "promptPassword"
    /\ Commit(postLogin(St(now), r), "prompt")

LoginResp(r) ==
    /\ runs[r].pc = "login"
    /\ \E resp \in AuthInputs :
       \E io \in WriteOutcomes(WritesSession(resp)) :
         Commit(onLoginResponse(
                    [St(now) EXCEPT !.recv = RespIo("login", resp, io)],
                    r, resp, io),
                "login")

ContinueResp(r) ==
    /\ runs[r].pc = "continue"
    /\ \E resp \in AuthInputs :
       \E io \in WriteOutcomes(WritesSession(resp)) :
         Commit(onContinueResponse(
                    [St(now) EXCEPT !.recv = RespIo("continue", resp, io)],
                    r, resp, io),
                "continue")

ConnectionsResp(r) ==
    /\ runs[r].pc = "connections"
    /\ \E resp \in ConnInputs :
       \E io \in WriteOutcomes(prog = "p1" /\ resp.status = 0
                                     /\ Len(resp.data) > 0) :
         Commit(onConnectionsResponse(
                    [Forget(St(now), r) EXCEPT
                         !.recv = RespIo("connections", resp, io)],
                    r, resp, io),
                "connections")

\* the upstream has a reading to deliver only while the log is short
GraphResp(r) ==
    /\ runs[r].pc = "graph"
    /\ \E n \in LaterTimes, resp \in GraphInputs :
       \E io \in WriteOutcomes(WritesLog(resp)) :
         /\ resp.has => Len(readMeasurementsFile(measFile)) < MaxLog
         /\ Commit(onGraphResponse(
                       [Forget(St(n), r) EXCEPT
                            !.recv = RespIo("graph", resp, io)],
                       r, resp, io),
                   "graph")

\* somebody removes cache.json while the program runs
ExternalDeleteCache ==
    /\ step # "boot"
    /\ cacheFile.kind # "missing"
    /\ Commit([St(now) EXCEPT !.cacheFile = CacheFile("missing", EmptyObj)],
              "external")

\* somebody removes latestMeasurements.json while the program runs
ExternalDeleteLog ==
    /\ step # "boot"
    /\ measFile.kind # "missing"
    /\ Commit([St(now) EXCEPT !.measFile = MeasFile("missing", <<>>)],
              "external")

Next ==
    \/ Main
    \/ \E i \in 1..MaxRuns : TimerFire(i)
    \/ \E r \in RunIds : PromptEmail(r)
    \/ \E r \in RunIds : PromptPassword(r)
    \/ \E r \in RunIds : LoginResp(r)
    \/ \E r \in RunIds : ContinueResp(r)
    \/ \E r \in RunIds : ConnectionsResp(r)
    \/ \E r \in RunIds : GraphResp(r)
    \/ ExternalDeleteCache
    \/ ExternalDeleteLog

NextP0 ==
    \/ Main
    \/ \E i \in 1..MaxRuns : IntervalFire(i)
    \/ \E r \in RunIds : PromptEmail(r)
    \/ \E r \in RunIds : PromptPassword(r)
    \/ \E r \in RunIds : LoginResp(r)
    \/ \E r \in RunIds : ContinueResp(r)
    \/ \E r \in RunIds : ConnectionsResp(r)
    \/ \E r \in RunIds : GraphResp(r)
    \/ ExternalDeleteCache
    \/ ExternalDeleteLog

\* the four routes of startHttpsServer
Paths ==
    {"/patient-info", "/sensor-info", "/measurement-mgdl", "/measurement-mmol"}

\* the field of memoryData a route serves
FieldOf(md, path) ==
    CASE path = "/patient-info"     -> md.patientInfo
      [] path = "/sensor-info"      -> md.sensorInfo
      [] path = "/measurement-mgdl" -> md.measurementMgdl
      [] OTHER                      -> md.measurementMmol

\* app.get(path, ...): 404 while the field is null, else the field as JSON
Reply(status, body, path) == [status |-> status, body |-> body, path |-> path]

\* variant: every route tests the mg/dL field, as the third one does
serveTestsMgdl(s, path) ==
    LET field == FieldOf(s.memoryData, path)
    IN  IF ~s.memoryData.measurementMgdl.set
        THEN [s EXCEPT !.reply = Reply(404, Unset, path)]
        ELSE [s EXCEPT !.reply = Reply(200, field, path)]

serve(s, path) ==
    LET field == FieldOf(s.memoryData, path)
    IN  IF ~field.set
        THEN [s EXCEPT !.reply = Reply(404, Unset, path)]
        ELSE [s EXCEPT !.reply = Reply(200, field, path)]

\* a client request is served; the server exists once main() has run
HttpGet(path) ==
    /\ step # "boot"
    /\ Commit(serve(St(now), path), "http")

\* the poller together with the query surface, the files left alone
NextHttp ==
    \/ Main
    \/ \E i \in 1..MaxRuns : TimerFire(i)
    \/ \E r \in RunIds : PromptEmail(r)
    \/ \E r \in RunIds : PromptPassword(r)
    \/ \E r \in RunIds : LoginResp(r)
    \/ \E r \in RunIds : ContinueResp(r)
    \/ \E r \in RunIds : ConnectionsResp(r)
    \/ \E r \in RunIds : GraphResp(r)
    \/ \E path \in Paths : HttpGet(path)

Spec == Init /\ [][Next]_vars

\* with the query surface the program is explored from well-formed files:
\* first start or stored session, no log or a log of the day before
InitHttpFiles ==
    /\ cacheFile \in {CacheFile("missing", EmptyObj),
                      CacheFile("object", SessionObj("tA", "uA"))}
    /\ measFile \in
          {MeasFile("missing", <<>>),
           MeasFile("array",
                    <<Entry(toISOString(parseLibreTimestamp(TsY)), 94, 2)>>)}

InitHttp == Init /\ InitHttpFiles

InitHttpP1 == InitP1 /\ InitHttpFiles

SpecHttp == InitHttp /\ [][NextHttp]_vars

SpecHttpP1 == InitHttpP1 /\ [][NextHttp]_vars

SpecP0 == InitP0 /\ [][NextP0]_vars

SpecP1 == InitP1 /\ [][Next]_vars

\* src/unnamed/part_001 started on a store that has lost the session
\* fields and still holds the profile resolved under that session
StaleProfile ==
    [EmptyObj EXCEPT !.patientId = ConnA.patientId,
                     !.firstName = ConnA.firstName,
                     !.lastName = ConnA.lastName,
                     !.sensor = ConnA.sensor]

InitP1Stale ==
    /\ InitMemory
    /\ prog = "p1"
    /\ cacheFile = CacheFile("object", StaleProfile)
    /\ measFile = MeasFile("missing", <<>>)

SpecP1Stale == InitP1Stale /\ [][Next]_vars


(***************************************************************************)
(* Fairness: every pending prompt answer, upstream response and timer      *)
(* callback is eventually delivered.  Nothing is assumed about what the    *)
(* upstream answers, nor about the files being touched from outside.       *)
(***************************************************************************)
Fairness ==
    /\ WF_vars(Main)
    /\ \A i \in 1..MaxRuns : WF_vars(TimerFire(i))
    /\ \A r \in RunIds : WF_vars(PromptEmail(r))
    /\ \A r \in RunIds : WF_vars(PromptPassword(r))
    /\ \A r \in RunIds : WF_vars(LoginResp(r))
    /\ \A r \in RunIds : WF_vars(ContinueResp(r))
    /\ \A r \in RunIds : WF_vars(ConnectionsResp(r))
    /\ \A r \in RunIds : WF_vars(GraphResp(r))

\* liveness is explored from a first start: no session, no log
InitFair ==
    /\ Init
    /\ cacheFile = CacheFile("missing", EmptyObj)
    /\ measFile = MeasFile("missing", <<>>)

FairSpec == InitFair /\ [][Next]_vars /\ Fairness

(***************************************************************************)
(* Restarts.  The process is stopped and started again: the module-level   *)
(* state is initialised anew, the two files are what the previous process  *)
(* left.  The upstream is one where the account lives in a home region:    *)
(* a login posted to any other address is answered with a redirect to the  *)
(* home region (or fails), a login posted to the home region is not        *)
(* redirected.                                                             *)
(***************************************************************************)
HomeRegion == "eu"

HomeInputs ==
    IF baseURL = RegionBase(HomeRegion)
    THEN {resp \in AuthResps : ~resp.redirect}
    ELSE {NetFail, Body(0, TRUE, HomeRegion, None, None, None)}

LoginRespHome(r) ==
    /\ runs[r].pc = "login"
    /\ \E resp \in HomeInputs :
       \E io \in WriteOutcomes(WritesSession(resp)) :
         Commit(onLoginResponse(
                    [St(now) EXCEPT !.recv = RespIo("login", resp, io)],
                    r, resp, io),
                "login")

\* what the top level of the module sets up when it is loaded
restart(s) ==
    [s EXCEPT !.runs = [r \in RunIds |-> NoRun],
              !.timers = <<>>,
              !.memoryData = NoData,
              !.baseURL = DefaultBase,
              !.headers = NoHeaders]

Restart ==
    /\ step # "boot"
    /\ Commit(restart(St(now)), "boot")

NextRestart ==
    \/ Main
    \/ \E i \in 1..MaxRuns : TimerFire(i)
    \/ \E r \in RunIds : PromptEmail(r)
    \/ \E r \in RunIds : PromptPassword(r)
    \/ \E r \in RunIds : LoginRespHome(r)
    \/ \E r \in RunIds : ContinueResp(r)
    \/ \E r \in RunIds : ConnectionsResp(r)
    \/ \E r \in RunIds : GraphResp(r)
    \/ ExternalDeleteCache
    \/ ExternalDeleteLog
    \/ Restart

\* explored from a first start: no session, no log
SpecRestart == InitFair /\ [][NextRestart]_vars

(***************************************************************************)
(* The helper functions applied on their own, to every argument of a       *)
(* bounded set.                                                            *)
(***************************************************************************)
Diffs == (0 - MaxDiff)..MaxDiff

MgdlValues == 0..MaxMgdl

\* a code as the upstream sends it: a number, or nothing at all
Code(n) == [present |-> TRUE, n |-> n]

NoCode == [present |-> FALSE, n |-> 0]

Codes == {Code(n) : n \in (-1)..7} \cup {Code(99), NoCode}

\* switch (num) compares with ===: undefined selects the default branch,
\* as any number without a case label does
SwitchArg(code) == IF code.present THEN code.n ELSE 0

\* const colorNumber = latest.MeasurementColor || 0
colorNumber(code) == IF code.present /\ code.n # 0 THEN code.n ELSE 0

Called(fn, arg, res) == [fn |-> fn, arg |-> arg, res |-> res]

CallClassify ==
    /\ \E diff \in Diffs :
          call' = Called("computeSinceLastTrendArrowNumber", diff,
                         computeSinceLastTrendArrowNumber(diff))
    /\ UNCHANGED progVars

CallMmol ==
    /\ \E v \in MgdlValues : call' = Called("mmolVal", v, MmolTenths(v))
    /\ UNCHANGED progVars

CallArrow ==
    /\ \E code \in Codes :
          call' = Called("arrowToEmoji", code, arrowToEmoji(SwitchArg(code)))
    /\ UNCHANGED progVars

CallColor ==
    /\ \E code \in Codes :
          call' = Called("measurementColorName", code,
                         measurementColorName(colorNumber(code)))
    /\ UNCHANGED progVars

\* upstream timestamps: calendar dates on both sides of the turn of the
\* year (instants within the integer range), every hour of the 12-hour
\* clock, both halves of the day
StampDates == {<<1, 1, 2025>>, <<1, 5, 2025>>, <<1, 24, 2025>>,
               <<12, 9, 2024>>, <<12, 31, 2024>>}

Stamps ==
    {RawTs(date[1], date[2], date[3], hh, mm, ss, ap) :
        date \in StampDates, hh \in 1..12, mm \in {0, 33, 59},
        ss \in {0, 54}, ap \in {"AM", "PM"}}

CallParse ==
    /\ \E ts \in Stamps :
          call' = Called("parseLibreTimestamp", ts,
                         LocalFields(parseLibreTimestamp(ts)))
    /\ UNCHANGED progVars

InitPure ==
    /\ InitCommon
    /\ prog = "main"
    /\ cacheFile = CacheFile("missing", EmptyObj)
    /\ measFile = MeasFile("missing", <<>>)

NextPure ==
    \/ CallClassify
    \/ CallMmol
    \/ CallArrow
    \/ CallColor
    \/ CallParse

SpecPure == InitPure /\ [][NextPure]_vars

(***************************************************************************)
(* Vocabulary of the properties.                                           *)
(***************************************************************************)
InFlight == {r \in RunIds : runs[r].pc # "none"}

CycleStarted == step \in {"main", "timer", "interval"}

\* the persisted store holds token, userId and accountIdHash
StoredSession ==
    /\ cacheFile.kind = "object"
    /\ cacheFile.obj.token # None
    /\ cacheFile.obj.userId # None
    /\ cacheFile.obj.accountIdHash # None

SessionOf(obj) == <<obj.token, obj.userId, obj.accountIdHash>>

InLogin(run) ==
    run.pc \in {"promptEmail", "promptPassword", "login", "continue"}

\* target - now for the decision recorded in arm, with a given interval
Lead(interval) == DateOf(arm.stamp) + interval + OffsetMs - now

\* the only pending timer is the one just armed with delay d
ArmedWith(d) == timers = <<Timer("timeout", now + d)>>

(***************************************************************************)
(* C1.  In src/main_server.js at most one fetch cycle is in flight at any  *)
(* moment, and while it is in flight no timer is pending: the next cycle   *)
(* can only be started by the single timer armed when the cycle ends.      *)
(***************************************************************************)
C1_SingleCycle ==
    /\ Cardinality(InFlight) <= 1
    /\ Len(timers) <= 1
    /\ InFlight # {} => timers = <<>>

C1_Witness == step = "timer" /\ Cardinality(InFlight) = 1

(***************************************************************************)
(* C2.  In the setInterval variant no two executions of                    *)
(* fetchAndStoreMeasurement are in flight at the same time.                *)
(***************************************************************************)
C2_NoOverlapP0 == Cardinality(InFlight) <= 1

(***************************************************************************)
(* C3.  Provided every prompt and upstream call eventually returns or      *)
(* fails, a new cycle is started infinitely often.                         *)
(***************************************************************************)
C3_CyclesForever == []<>CycleStarted

(***************************************************************************)
(* C4.  When a cycle throws or returns no reading, the next cycle is armed *)
(* with the fixed 60 000 ms delay, whatever the measurement log and the    *)
(* published reading contain.                                              *)
(***************************************************************************)
C4_FixedRetry ==
    arm.outcome \in {"throw", "null"} =>
        arm.delay = RetryDelayMs /\ ArmedWith(RetryDelayMs)

C4_Witness ==
    /\ arm.outcome = "null"
    /\ memoryData.measurementMgdl.set
    /\ Len(readMeasurementsFile(measFile)) > 0
    /\ LET arr == readMeasurementsFile(measFile)
       IN  scheduleNextFetch(arr[Len(arr)].Timestamp, now) # RetryDelayMs

(***************************************************************************)
(* C5.  After a successful cycle the delay is target - now, with target =  *)
(* T + sampling interval + 3 s, when that is at least 1000 ms, and the     *)
(* 30 000 ms fallback when it is below 1000 ms; hence it is never below    *)
(* 1000 ms, and a poll that finds the same reading again, at any instant   *)
(* the armed timer can fire at, is followed by the fallback delay.         *)
(***************************************************************************)
C5_DelayFloor ==
    arm.outcome = "stamp" =>
        /\ Lead(IntervalMain) >= MinDelayMs => arm.delay = Lead(IntervalMain)
        /\ Lead(IntervalMain) < MinDelayMs => arm.delay = FallbackDelayMs
        /\ arm.delay >= MinDelayMs
        /\ ArmedWith(arm.delay)
        /\ \A n \in NowVals :
             n >= now + arm.delay =>
                 scheduleNextFetch(arm.stamp, n) = FallbackDelayMs

C5_Witness ==
    /\ arm.outcome = "stamp"
    /\ Lead(IntervalMain) = MinDelayMs - 1
    /\ arm.delay = FallbackDelayMs

(***************************************************************************)
(* C6.  After a successful cycle the next fetch is targeted at the stored  *)
(* reading's timestamp + 60 s + 3 s: when that target is at least 1000 ms  *)
(* ahead, the delay is (T + 60 s + 3 s) - now.                             *)
(***************************************************************************)
DocumentedIntervalMs == 60000

C6_TargetSixtySeconds ==
    (arm.outcome = "stamp" /\ Lead(DocumentedIntervalMs) >= MinDelayMs) =>
        arm.delay = Lead(DocumentedIntervalMs)

(***************************************************************************)
(* C7.  When the first login response is a redirect to region X and the    *)
(* second login response has status 0, the login succeeds, the base        *)
(* address has been switched once, to the address of region X, and the     *)
(* request that follows is sent there.                                     *)
(***************************************************************************)
RedirectThenOk(run) ==
    /\ run.login
    /\ Len(run.hist) = 2
    /\ run.hist[1].redirect /\ run.hist[1].region # None
    /\ ~run.hist[2].redirect /\ run.hist[2].status = 0

C7_RedirectSwitchesBase ==
    \A r \in RunIds :
        RedirectThenOk(runs[r]) =>
            /\ baseURL = RegionBase(runs[r].hist[1].region)
            /\ runs[r].nUpd = 1
            /\ sent.kind # "none" => sent.base = RegionBase(runs[r].hist[1].region)

(***************************************************************************)
(* C8.  When the login response has status 4 with a step type and a token  *)
(* and the continuation response has status 0, the login succeeds with     *)
(* the token, userId and digest of the continuation response; and a        *)
(* continuation POST carries the token of the status-4 response it         *)
(* answers as bearer credential.  (The session is observed in cacheObj,    *)
(* where the caller puts it; a store content that cannot take fields is    *)
(* the subject of C11.)                                                    *)
(***************************************************************************)
StepThenOk(run) ==
    /\ run.login
    /\ Len(run.hist) = 2
    /\ ~run.hist[1].redirect /\ run.hist[1].status = 4
    /\ run.hist[2].status = 0

C8_SessionFromContinuation ==
    \A r \in RunIds :
        /\ (StepThenOk(runs[r]) /\ ~runs[r].cacheObj.prim) =>
              /\ SessionOf(runs[r].cacheObj) =
                     <<runs[r].hist[2].token, runs[r].hist[2].userId,
                       sha256Hex(runs[r].hist[2].userId)>>
              /\ cacheFile.kind = "object" =>
                     SessionOf(cacheFile.obj) = SessionOf(runs[r].cacheObj)
        /\ (sent.kind = "continue" /\ runs[r].pc = "continue"
                /\ Len(runs[r].hist) \in 1..(HistCap - 1)) =>
              LET prev == runs[r].hist[Len(runs[r].hist)]
              IN  /\ prev.status = 4
                  /\ sent.auth = prev.token
                  /\ sent.param = prev.stepType

C8_Witness ==
    \E r \in RunIds :
        /\ StepThenOk(runs[r])
        /\ runs[r].hist = <<StepA, OkB>>
        /\ StoredSession
        /\ cacheFile.obj.token = "tB"

(***************************************************************************)
(* C9.  The login flow succeeds only when its final response (neither a    *)
(* redirect answered by a new login nor a status 4) has status 0; on any   *)
(* other final status it fails, the session store is not written, no       *)
(* connections or graph request is sent, and the store still holds no      *)
(* session; and a cycle started by the timer on a store without session    *)
(* goes to the credential prompt, so the next cycle authenticates again.   *)
(***************************************************************************)
FinalResp(before, resp) ==
    /\ resp.status # 4
    /\ before.pc = "login" => ~resp.redirect

C9_LoginNeedsStatusZero ==
    [][/\ \A r \in RunIds :
            (/\ runs[r].pc \in {"login", "continue"}
             /\ recv'.kind = runs[r].pc) =>
               LET resp == recv'.body
               IN  /\ runs'[r].login => resp.status = 0
                   /\ (FinalResp(runs[r], resp) /\ resp.status # 0) =>
                         /\ runs'[r].pc = "none"
                         /\ arm'.outcome = "throw"
                         /\ cacheFile' = cacheFile
                         /\ sent' = NoReq
                         /\ ~StoredSession'
                         /\ cacheFile'.kind # "null"
       /\ (step' = "timer" /\ ~StoredSession /\ cacheFile.kind # "null") =>
             \E r \in RunIds : runs'[r].pc = "promptEmail"]_vars

C9_Witness ==
    /\ step = "login"
    /\ arm.outcome = "throw"
    /\ recv = Resp("login", OddStatus)
    /\ ~StoredSession

(***************************************************************************)
(* C10.  Once the session store holds a complete session, no step of the   *)
(* program prompts for credentials, posts to the login endpoint, or        *)
(* changes the stored session; only a removal of the file from outside     *)
(* ends this.                                                              *)
(***************************************************************************)
C10_SessionKept ==
    [][StoredSession =>
          \/ step' = "external" /\ cacheFile'.kind = "missing"
          \/ /\ StoredSession'
             /\ SessionOf(cacheFile'.obj) = SessionOf(cacheFile.obj)
             /\ sent'.kind \notin {"login", "continue"}
             /\ \A r \in RunIds : ~InLogin(runs'[r])]_vars

C10_Witness ==
    /\ step = "timer"
    /\ StoredSession
    /\ \E r \in RunIds : runs[r].pc = "connections" /\ ~runs[r].login

(***************************************************************************)
(* C11.  Whatever the session store contains that is not a complete        *)
(* session (no file, text that is not JSON, JSON null, a JSON number, an   *)
(* object lacking a field), a cycle that starts goes to the credential     *)
(* prompt, and a login flow that succeeds leaves a complete session in the *)
(* store.                                                                  *)
(***************************************************************************)
C11_MalformedStoreRelogin ==
    [][/\ (step' \in {"main", "timer"} /\ ~StoredSession) =>
             \E r \in RunIds : runs'[r].pc = "promptEmail"
       /\ \A r \in RunIds :
             (~runs[r].login /\ runs'[r].login) => StoredSession']_vars

(***************************************************************************)
(* C12.  When a cycle resolves the subject from the connections listing    *)
(* (first entry), the profile is written to the session store; and a cycle *)
(* that starts on a store holding a session and a resolved subject sends   *)
(* no connections request: its first request is the graph request for the  *)
(* stored subject.                                                         *)
(***************************************************************************)
C12_ConnectionsResolvedOnce ==
    [][/\ \A r \in RunIds :
            (/\ runs[r].pc = "connections"
             /\ runs'[r].pc = "graph"
             /\ ~runs[r].cacheObj.prim) =>
               /\ cacheFile'.kind = "object"
               /\ cacheFile'.obj.patientId = sent'.param
       /\ (/\ step' \in {"main", "timer"}
           /\ StoredSession
           /\ cacheFile.obj.patientId # None) =>
             /\ sent'.kind = "graph"
             /\ sent'.param = cacheFile.obj.patientId]_vars

(***************************************************************************)
(* C13.  In src/main_server.js a cycle whose connections list is empty, or *)
(* whose graph response has status 0 and no glucoseMeasurement, ends       *)
(* without error and without timestamp: the measurement log and the four   *)
(* published fields are left as they were and the step sends no request    *)
(* (so no graph request follows an empty list).                            *)
(***************************************************************************)
EmptyList(run, resp) ==
    /\ run.pc = "connections"
    /\ resp.kind = "connections"
    /\ resp.body.status = 0
    /\ Len(resp.body.data) = 0

NoReading(run, resp) ==
    /\ run.pc = "graph"
    /\ resp.kind = "graph"
    /\ resp.body.status = 0
    /\ ~resp.body.has

C13_NoDataFrame ==
    [][\A r \in RunIds :
          (EmptyList(runs[r], recv') \/ NoReading(runs[r], recv')) =>
              /\ runs'[r].pc = "none"
              /\ arm'.outcome = "null"
              /\ measFile' = measFile
              /\ memoryData' = memoryData
              /\ sent' = NoReq]_vars

C13_Witness ==
    /\ step = "graph"
    /\ recv.kind = "graph" /\ recv.body.status = 0 /\ ~recv.body.has
    /\ arm.outcome = "null"
    /\ memoryData.measurementMgdl.set
    /\ Len(readMeasurementsFile(measFile)) > 0

(***************************************************************************)
(* C14.  Whenever the measurement log has just been persisted, every one   *)
(* of its entries, the appended reading included, is dated today in local  *)
(* time.                                                                   *)
(***************************************************************************)
DatedToday(m, t) ==
    /\ ~IsNullEntry(m)
    /\ ~IsBadTs(m.Timestamp)
    /\ toLocaleDateString(DateOf(m.Timestamp)) = toLocaleDateString(t)

LogPersisted == step = "graph" /\ arm.outcome = "stamp"

C14_LogOnlyToday ==
    LogPersisted =>
        LET arr == readMeasurementsFile(measFile)
        IN  \A i \in 1..Len(arr) : DatedToday(arr[i], now)

(***************************************************************************)
(* C15.  A successful cycle persists exactly the entries of the previous   *)
(* log that are dated today, in their order, followed by the new reading:  *)
(* one entry is added, also when its timestamp equals the last stored one, *)
(* and a log with only entries of earlier days becomes a log of one entry. *)
(***************************************************************************)
TodayOf(arr, t) == SelectSeq(arr, LAMBDA m : DatedToday(m, t))

C15_PurgeThenAppend ==
    [][(step' = "graph" /\ arm'.outcome = "stamp") =>
          LET old    == readMeasurementsFile(measFile)
              kept   == TodayOf(old, now')
              new    == readMeasurementsFile(measFile')
              latest == recv'.body.m
          IN  /\ measFile'.kind = "array"
              /\ Len(new) = Len(kept) + 1
              /\ SubSeq(new, 1, Len(kept)) = kept
              /\ new[Len(new)] =
                     Entry(toISOString(parseLibreTimestamp(latest.Timestamp)),
                           latest.ValueInMgPerDl, latest.TrendArrow)
              /\ (old # <<>> /\ kept = <<>>) => Len(new) = 1]_vars

C15_Witness ==
    LET arr == readMeasurementsFile(measFile)
    IN  /\ step = "graph" /\ arm.outcome = "stamp"
        /\ Len(arr) = 3
        /\ arr[1].Timestamp # arr[2].Timestamp
        /\ arr[2].Timestamp = arr[3].Timestamp

(***************************************************************************)
(* C16.  The published snapshot changes only in the step that completes a  *)
(* successful cycle, which writes the four fields together from that       *)
(* cycle's profile and reading; hence between steps, where requests are    *)
(* served, the fields are all of the same cycle (no profile without        *)
(* reading), a cycle that fails or returns no data changes nothing, and    *)
(* serving a request changes nothing and answers with the field as it is.  *)
(***************************************************************************)
Coherent(md) ==
    /\ md.patientInfo.set <=> md.measurementMgdl.set
    /\ md.measurementMgdl.set <=> md.measurementMmol.set
    /\ md.sensorInfo.set => md.patientInfo.set
    /\ md.measurementMgdl.set =>
           md.measurementMgdl.Timestamp = md.measurementMmol.Timestamp

C16_SnapshotAtomic ==
    [][/\ memoryData' # memoryData =>
             (step' = "graph" /\ arm'.outcome = "stamp")
       /\ (step' = "graph" /\ arm'.outcome = "stamp") =>
             /\ memoryData'.patientInfo.set
             /\ memoryData'.measurementMgdl.set
             /\ memoryData'.measurementMmol.set
             /\ memoryData'.measurementMgdl.Timestamp = arm'.stamp
             /\ memoryData'.measurementMgdl.value = recv'.body.m.ValueInMgPerDl
             /\ \A r \in RunIds :
                   runs[r].pc = "graph" =>
                     /\ memoryData'.patientInfo.firstName = runs[r].conn.firstName
                     /\ memoryData'.sensorInfo.set = runs[r].conn.sensor.present
       /\ Coherent(memoryData')
       /\ step' = "http" =>
             /\ memoryData' = memoryData
             /\ \E path \in Paths :
                   LET field == FieldOf(memoryData, path)
                   IN  reply' = IF field.set
                                THEN Reply(200, field, path)
                                ELSE Reply(404, Unset, path)]_vars

(***************************************************************************)
(* C17.  computeSinceLastTrendArrowNumber(diff) is in 1..5 for every       *)
(* integer diff: 3 for 0, 4 for 1..5, 5 above 5, 2 for -5..-1, 1 below -5. *)
(***************************************************************************)
C17_ClassifyDelta ==
    call.fn = "computeSinceLastTrendArrowNumber" =>
        LET diff == call.arg
            f    == call.res
        IN  /\ f \in 1..5
            /\ diff = 0 => f = 3
            /\ (0 < diff /\ diff <= 5) => f = 4
            /\ diff > 5 => f = 5
            /\ (-5 <= diff /\ diff < 0) => f = 2
            /\ diff < -5 => f = 1
            /\ (f = 1) <=> (diff <= -6)

C17_Witness ==
    /\ call.fn = "computeSinceLastTrendArrowNumber"
    /\ call.arg = -5
    /\ call.res = 2

(***************************************************************************)
(* C18.  For every mg/dL value v >= 0, ten times the published mmol/L      *)
(* value is the integer nearest to 10 v / 18, that is, the result differs  *)
(* from v / 18 by at most 0.05; 180 gives 10.0 and 100 gives 5.6.          *)
(***************************************************************************)
Abs(x) == IF x < 0 THEN 0 - x ELSE x

C18_MmolRounded ==
    call.fn = "mmolVal" =>
        LET v      == call.arg
            tenths == call.res
        IN  /\ Abs(18 * tenths - 10 * v) <= 9
            /\ v = 180 => tenths = 100
            /\ v = 100 => tenths = 56

C18_Witness == call.fn = "mmolVal" /\ call.arg = 100 /\ call.res = 56

(***************************************************************************)
(* C19.  arrowToEmoji gives five pairwise distinct glyphs for the codes    *)
(* 1..5 and one further glyph for every other or absent code;              *)
(* measurementColorName gives green, yellow, orange, red for 1, 2, 3, 4    *)
(* and "unknown" for every other or absent code.                           *)
(***************************************************************************)
Glyphs == <<"down", "down-right", "right", "up-right", "up">>

ColorNames == <<"green", "yellow", "orange", "red">>

C19_GlyphAndColor ==
    /\ \A i, j \in 1..5 : i # j => Glyphs[i] # Glyphs[j]
    /\ call.fn = "arrowToEmoji" =>
          IF call.arg.present /\ call.arg.n \in 1..5
          THEN call.res = Glyphs[call.arg.n]
          ELSE /\ call.res = "question"
               /\ \A i \in 1..5 : call.res # Glyphs[i]
    /\ call.fn = "measurementColorName" =>
          IF call.arg.present /\ call.arg.n \in 1..4
          THEN call.res = ColorNames[call.arg.n]
          ELSE call.res = "unknown"

C19_Witness ==
    /\ call.fn = "arrowToEmoji"
    /\ call.arg = Code(99)
    /\ call.res = "question"

(***************************************************************************)
(* C20.  The since-last trend published by a successful cycle is a glyph   *)
(* only when the log held a previous reading and the new reading is later  *)
(* than it by at most 24 minutes, and then it is the glyph of              *)
(* computeSinceLastTrendArrowNumber(new value - previous value); without   *)
(* previous reading, with a gap above 24 minutes or with a new reading     *)
(* that is not later than the previous one, it is "N/A".                   *)
(***************************************************************************)
C20_SinceLastFresh ==
    [][(step' = "graph" /\ arm'.outcome = "stamp") =>
          LET old   == readMeasurementsFile(measFile)
              since == memoryData'.measurementMgdl.SinceLastTrendArrow
              d     == DateOf(arm'.stamp)
              v     == recv'.body.m.ValueInMgPerDl
          IN  /\ memoryData'.measurementMmol.SinceLastTrendArrow = since
              /\ since # "N/A" =>
                    /\ old # <<>>
                    /\ LET prev == old[Len(old)]
                           gap  == d - DateOf(prev.Timestamp)
                       IN  /\ 0 < gap
                           /\ gap <= FreshMs
                           /\ since = arrowToEmoji(
                                  computeSinceLastTrendArrowNumber(
                                      v - prev.ValueInMgPerDl))]_vars

(***************************************************************************)
(* C21.  A query endpoint answers 404 exactly when its field of the        *)
(* snapshot is unset and otherwise answers with the field as last          *)
(* published: while nothing has been published all four answer 404, the    *)
(* reading views are set by a successful cycle to that cycle's reading and *)
(* are changed by no other step, and a request for them returns them.      *)
(***************************************************************************)
Succeeded == step = "graph" /\ arm.outcome = "stamp"

\* the two reading views of the snapshot
Views(md) == <<md.measurementMgdl, md.measurementMmol>>

C21_EndpointsServeSnapshot ==
    [][/\ step' = "http" =>
             LET field == FieldOf(memoryData, reply'.path)
             IN  /\ reply'.path \in Paths
                 /\ reply'.status \in {200, 404}
                 /\ reply'.status = 404 <=> ~field.set
                 /\ reply'.status = 200 => reply'.body = field
                 /\ memoryData = NoData => reply'.status = 404
       /\ Succeeded' =>
             LET latest == recv'.body.m
                 stamp  == toISOString(parseLibreTimestamp(latest.Timestamp))
             IN  /\ memoryData'.measurementMgdl.set
                 /\ memoryData'.measurementMmol.set
                 /\ memoryData'.measurementMgdl.Timestamp = stamp
                 /\ memoryData'.measurementMmol.Timestamp = stamp
                 /\ memoryData'.measurementMgdl.value = latest.ValueInMgPerDl
                 /\ memoryData'.measurementMmol.value =
                        MmolTenths(latest.ValueInMgPerDl)
                 /\ memoryData'.measurementMgdl.TrendArrow = latest.TrendArrow
       /\ ~Succeeded' => Views(memoryData') = Views(memoryData)]_vars

\* the second reading of the day is served after the first was published
C21_Witness ==
    /\ step = "http"
    /\ reply.path = "/measurement-mgdl"
    /\ reply.status = 200
    /\ reply.body.Timestamp = toISOString(parseLibreTimestamp(Ts1))
    /\ reply.body.value = 106
    /\ Len(readMeasurementsFile(measFile)) >= 2

(***************************************************************************)
(* C22.  A corrupt measurement log (text that is not a JSON array, or an   *)
(* array with an element that is not a record, such as null) counts as     *)
(* empty: a cycle that receives a reading and whose file write goes        *)
(* through completes, publishes the reading and leaves a log of exactly    *)
(* that reading.                                                           *)
(***************************************************************************)
Corrupt(file) ==
    \/ file.kind = "garbage"
    \/ file.kind = "array" /\ \E i \in 1..Len(file.arr) : IsNullEntry(file.arr[i])

\* the step handles a graph response with a reading that can be parsed
ReadingArrives(run, resp) ==
    /\ run.pc = "graph"
    /\ resp.kind = "graph"
    /\ resp.body.status = 0 /\ resp.body.has
    /\ ~IsBadTs(resp.body.m.Timestamp)

C22_CorruptLogRecovered ==
    [][\A r \in RunIds :
          (ReadingArrives(runs[r], recv') /\ recv'.io /\ Corrupt(measFile)) =>
              LET latest == recv'.body.m
                  stamp  == toISOString(parseLibreTimestamp(latest.Timestamp))
              IN  /\ arm'.outcome = "stamp"
                  /\ measFile' =
                         writeMeasurementsFile(
                             <<Entry(stamp, latest.ValueInMgPerDl,
                                     latest.TrendArrow)>>)
                  /\ memoryData'.measurementMgdl.set
                  /\ memoryData'.measurementMgdl.Timestamp = stamp]_vars

(***************************************************************************)
(* C23.  The step in which a login flow succeeds leaves the new session    *)
(* (token, userId, digest of the final response) in the session store, and *)
(* sends the following request only when that write went through; from     *)
(* then on no step of the program takes the session out of the store, so   *)
(* a failure later in the cycle leaves it there and the cycle started by   *)
(* the next timer does not prompt.                                         *)
(***************************************************************************)
LoginSucceeds(r) == ~runs[r].login /\ runs'[r].login

C23_SessionStoredBeforeUse ==
    [][/\ \A r \in RunIds :
            /\ LoginSucceeds(r) =>
                  /\ StoredSession'
                  /\ SessionOf(cacheFile'.obj) =
                         <<recv'.body.token, recv'.body.userId,
                           sha256Hex(recv'.body.userId)>>
                  /\ sent'.kind = "connections"
            /\ (/\ runs[r].pc \in {"login", "continue"}
                /\ recv'.kind = runs[r].pc
                /\ ~recv'.io) =>
                  /\ sent' = NoReq
                  /\ arm'.outcome = "throw"
                  /\ cacheFile' = cacheFile
            /\ (runs[r].login /\ StoredSession /\ step' # "external") =>
                  /\ StoredSession'
                  /\ cacheFile' = cacheFile
       /\ (step' = "timer" /\ StoredSession) =>
             \A r \in RunIds : runs'[r].pc # "promptEmail"]_vars

(***************************************************************************)
(* C24.  One call of doLoginFlow sends a bounded number of login and       *)
(* continuation requests: provided every request is answered, whatever     *)
(* the answers are, a flow that has posted a login eventually ends, in     *)
(* success or in an error.                                                 *)
(***************************************************************************)
\* a login flow waits for an answer (at most one cycle is in flight, C1)
FlowPending == \E r \in RunIds : runs[r].pc \in {"login", "continue"}

C24_LoginFlowEnds == FlowPending ~> ~FlowPending

(***************************************************************************)
(* C25.  In src/main_server.js the base address changes only when a login  *)
(* response is a redirect that names a region, and then to the address of  *)
(* that region; every request is sent to the base address current at that  *)
(* moment, in this and in all later cycles; the base address never goes    *)
(* back to the default; and a redirect without region fails the login,     *)
(* sending nothing and leaving the base address as it was.                 *)
(***************************************************************************)
RedirectTo(resp) ==
    resp.kind = "login" /\ resp.body.redirect /\ resp.body.region # None

RedirectNowhere(resp) ==
    resp.kind = "login" /\ resp.body.redirect /\ resp.body.region = None

C25_RegionSticky ==
    [][/\ baseURL' # baseURL => RedirectTo(recv')
       /\ RedirectTo(recv') =>
             /\ baseURL' = RegionBase(recv'.body.region)
             /\ sent'.kind = "login"
       /\ RedirectNowhere(recv') =>
             /\ baseURL' = baseURL
             /\ arm'.outcome = "throw"
             /\ sent' = NoReq
       /\ sent'.kind # "none" => sent'.base = baseURL'
       /\ baseURL # DefaultBase => baseURL' # DefaultBase]_vars

\* a cycle on the stored session, after the one that was redirected
C25_Witness ==
    /\ step = "connections"
    /\ sent.kind = "graph"
    /\ sent.base = RegionBase("eu")
    /\ \E r \in RunIds : runs[r].pc = "graph" /\ ~runs[r].login

(***************************************************************************)
(* C26.  The stored session carries the region it was issued in: with an   *)
(* account that lives in one region, every connections and graph request,  *)
(* also those of a process started again on the stored session, is sent    *)
(* to the base address of that region.                                     *)
(***************************************************************************)
C26_RegionSurvivesRestart ==
    sent.kind \in {"connections", "graph"} =>
        sent.base = RegionBase(HomeRegion)

(***************************************************************************)
(* C27.  In src/unnamed/part_001 a cycle that has established a new        *)
(* session by login resolves its subject under that session: the step in   *)
(* which the login succeeds sends the connections request, and the graph   *)
(* request and the published patient info of that cycle are for the first  *)
(* entry of the listing it received.                                       *)
(***************************************************************************)
C27_ProfilePerSession ==
    [][\A r \in RunIds :
          /\ LoginSucceeds(r) => sent'.kind = "connections"
          /\ (runs'[r].login /\ sent'.kind = "graph") =>
                /\ recv'.kind = "connections"
                /\ sent'.param = recv'.body.data[1].patientId
                /\ memoryData'.patientInfo.set
                /\ memoryData'.patientInfo.patientId = sent'.param]_vars

(***************************************************************************)
(* C28.  The Date built by parseLibreTimestamp has the month, day, year,   *)
(* minute and second of the upstream string, and for every hour h of       *)
(* 1..12 the hour h mod 12 for AM and (h mod 12) + 12 for PM: 12 AM is 0,  *)
(* 12 PM is 12, 1 PM is 13.                                                *)
(***************************************************************************)
Hour24(h, ampm) == IF ampm = "AM" THEN h % 12 ELSE (h % 12) + 12

C28_TimestampDecomposition ==
    call.fn = "parseLibreTimestamp" =>
        LET ts == call.arg
            d  == call.res
        IN  /\ d.year = ts.year /\ d.month = ts.month /\ d.day = ts.day
            /\ d.minutes = ts.mm /\ d.seconds = ts.ss
            /\ d.hours = Hour24(ts.hh, ts.ampm)
            /\ (ts.hh = 12 /\ ts.ampm = "AM") => d.hours = 0
            /\ (ts.hh = 12 /\ ts.ampm = "PM") => d.hours = 12
            /\ (ts.hh = 1 /\ ts.ampm = "PM") => d.hours = 13

C28_Witness ==
    /\ call.fn = "parseLibreTimestamp"
    /\ call.arg = RawTs(12, 31, 2024, 12, 33, 54, "AM")
    /\ call.res.hours = 0
    /\ call.res.year = 2024

(***************************************************************************)
(* C29.  In src/main_server.js, once main() has run, either one cycle is   *)
(* in flight and no timer is pending, or no cycle is in flight and exactly *)
(* one timer is pending; no cycle starts while one is in flight (waiting   *)
(* for the prompt or for the upstream), and a step arms at most one timer. *)
(***************************************************************************)
CycleXorTimer ==
    \/ Cardinality(InFlight) = 1 /\ timers = <<>>
    \/ InFlight = {} /\ Len(timers) = 1

C29_CycleXorTimer ==
    [][/\ CycleXorTimer'
       /\ InFlight # {} => step' \notin {"main", "timer"}
       /\ Len(timers') <= Len(timers) + 1
       /\ (InFlight # {} /\ InFlight' = {}) => arm'.outcome # None]_vars

\* a cycle started by the timer waits for the user
C29_Witness ==
    /\ step = "timer"
    /\ timers = <<>>
    /\ \E r \in RunIds : runs[r].pc = "promptEmail"

(***************************************************************************)
(* C30.  In src/main_server.js the published mg/dL and mmol views describe *)
(* the last entry of the persisted log (same timestamp, same trend code,   *)
(* mg/dL value of the entry, mmol value converted from it): this holds     *)
(* after every successful cycle and is kept by every step of the program   *)
(* (not by a change of the log from outside); a failed write of the log    *)
(* leaves log and snapshot as they were.                                   *)
(***************************************************************************)
ViewsMatchLog ==
    memoryData.measurementMgdl.set =>
        LET arr  == readMeasurementsFile(measFile)
            mgdl == memoryData.measurementMgdl
            mmol == memoryData.measurementMmol
        IN  /\ arr # <<>>
            /\ ~IsNullEntry(arr[Len(arr)])
            /\ mmol.set
            /\ mgdl.Timestamp = arr[Len(arr)].Timestamp
            /\ mmol.Timestamp = arr[Len(arr)].Timestamp
            /\ mgdl.TrendArrow = arr[Len(arr)].TrendArrow
            /\ mmol.TrendArrow = arr[Len(arr)].TrendArrow
            /\ mgdl.value = arr[Len(arr)].ValueInMgPerDl
            /\ mmol.value = MmolTenths(arr[Len(arr)].ValueInMgPerDl)

LogWriteFailed(resp) == resp.kind = "graph" /\ ~resp.io

C30_ViewsMatchLog ==
    [][/\ Succeeded' => ViewsMatchLog'
       /\ (ViewsMatchLog /\ step' # "external") => ViewsMatchLog'
       /\ LogWriteFailed(recv') =>
             /\ memoryData' = memoryData
             /\ measFile' = measFile
             /\ arm'.outcome = "throw"]_vars

\* the write of a second, different reading has failed
C30_Witness ==
    /\ LogWriteFailed(recv)
    /\ memoryData.measurementMgdl.set
    /\ ViewsMatchLog
    /\ memoryData.measurementMgdl.value # recv.body.m.ValueInMgPerDl

(***************************************************************************)
(* C31.  In src/main_server.js, once one of the two reading endpoints has  *)
(* answered with a reading, it never answers 404 afterwards, whatever the  *)
(* later cycles end in.                                                    *)
(***************************************************************************)
ReadingPaths == {"/measurement-mgdl", "/measurement-mmol"}

Served(path) == step = "http" /\ reply.path = path /\ reply.status = 200

Refused(path) == step = "http" /\ reply.path = path /\ reply.status = 404

C31_ReadingStaysPublished ==
    \A path \in ReadingPaths : [](Served(path) => []~Refused(path))

\* the reading is served after a later cycle has ended without reading or
\* with an error (its timer is the 60 s one)
C31_Witness ==
    /\ Served("/measurement-mgdl")
    /\ reply.body.Timestamp = toISOString(0)
    /\ timers = <<Timer("timeout", 123000 + RetryDelayMs)>>

(***************************************************************************)
(* C32.  After a successful cycle whose reading is stamped T, not later    *)
(* than the clock, the armed delay is between 1000 ms and the sampling     *)
(* interval plus the offset; a longer delay is armed only for a reading    *)
(* stamped in the future of the clock.                                     *)
(***************************************************************************)
MaxLeadMs == IntervalMain + OffsetMs

C32_DelayBounded ==
    arm.outcome = "stamp" =>
        /\ DateOf(arm.stamp) <= now =>
               /\ arm.delay <= MaxLeadMs
               /\ arm.delay >= MinDelayMs
               /\ ArmedWith(arm.delay)
        /\ arm.delay > MaxLeadMs =>
               /\ DateOf(arm.stamp) > now
               /\ arm.delay = DateOf(arm.stamp) - now + MaxLeadMs

\* a reading stamped with the very instant of the clock: the longest delay
C32_Witness ==
    /\ arm.outcome = "stamp"
    /\ DateOf(arm.stamp) = now
    /\ arm.delay = MaxLeadMs

\* a reading stamped ahead of the clock
C32_WitnessAhead ==
    /\ arm.outcome = "stamp"
    /\ DateOf(arm.stamp) > now
    /\ arm.delay > MaxLeadMs

(***************************************************************************)
(* C33.  The log is read, purged, extended and written within one step:    *)
(* the file written by an execution is the file as it was when that step   *)
(* began, reduced to today's entries, followed by the new reading, so an   *)
(* entry appended by another execution in the meantime is kept; the step   *)
(* ends the execution and leaves every other execution where it was.       *)
(* Stated for src/unnamed/part_000, where executions overlap.              *)
(***************************************************************************)
\* execution r handles a graph response that takes it to the write, and
\* the write goes through
Appends(r) ==
    /\ runs[r].pc = "graph"
    /\ runs'[r] # runs[r]
    /\ recv'.kind = "graph"
    /\ WritesLog(recv'.body)
    /\ recv'.io

C33_NoLostAppend ==
    [][\A r \in RunIds :
          Appends(r) =>
              LET old  == readMeasurementsFile(measFile)
                  kept == TodayOf(old, now')
                  new  == readMeasurementsFile(measFile')
              IN  /\ measFile'.kind = "array"
                  /\ Len(new) = Len(kept) + 1
                  /\ SubSeq(new, 1, Len(kept)) = kept
                  /\ new[Len(new)].ValueInMgPerDl =
                         recv'.body.m.ValueInMgPerDl
                  /\ runs'[r].pc = "none"
                  /\ \A q \in RunIds \ {r} : runs'[q] = runs[q]]_vars

\* an execution has appended to a log that already holds an entry, while
\* another execution is waiting for its graph response
C33_Witness ==
    /\ prog = "p0"
    /\ step = "graph"
    /\ recv.kind = "graph" /\ recv.io /\ recv.body.has
    /\ Len(readMeasurementsFile(measFile)) = 2
    /\ \E r \in RunIds : runs[r].pc = "graph"

(***************************************************************************)
(* C34.  In src/main_server.js, when the log holds a reading before a      *)
(* successful cycle and the new reading is later than the last entry by    *)
(* at most 24 minutes, the published since-last trend is a glyph, also     *)
(* when the last entry was stored on the previous calendar day.            *)
(***************************************************************************)
C34_SinceLastAcrossMidnight ==
    [][Succeeded' =>
          LET old  == readMeasurementsFile(measFile)
              prev == old[Len(old)]
              gap  == DateOf(arm'.stamp) - DateOf(prev.Timestamp)
          IN  (old # <<>> /\ 0 <= gap /\ gap <= FreshMs) =>
                  /\ memoryData'.measurementMgdl.SinceLastTrendArrow # "N/A"
                  /\ memoryData'.measurementMmol.SinceLastTrendArrow # "N/A"]_vars

====
